---- MODULE Spec2Model ----
(***************************************************************************)
(* TF-IDF by map/reduce: the sequential pipeline of MapReduce/TP1.py and   *)
(* the map_tf / reduce_tf_idf pair of MapReduce_TFI-DF.py run by a job     *)
(* harness.                                                                *)
(*                                                                         *)
(* Strings the code takes apart (file names, file contents, review texts)  *)
(* are sequences of one-character strings, so that split, strip, lower and *)
(* endswith are computed, not assumed.  A term is the character sequence   *)
(* of a token.  A float is kept as the integers it is computed from:       *)
(*   idf   = log(total_docs / n)               is  <<total_docs, n>>       *)
(*   tfidf = (tf / word_count) * log(N / n)    is  <<tf, word_count, N, n>> *)
(* Equal tuples give equal floats.                                         *)
(***************************************************************************)
EXTENDS Integers, Sequences, FiniteSets, TLC

VARIABLES
    files,            \* os.listdir(folder_path) with each file's content
    read_i,           \* read_documents: position in the listing
    reviews,          \* list of (review_id, review_text)
    pc,               \* where the run is
    map_i,            \* map_tf_on_reviews: position in reviews
    tf_results,       \* TP1: list of ((word, id_review), (count, word_count))
    idf_input,        \* TP1: word -> set of id_review
    idf_values,       \* TP1: word -> idf
    tfidf_results,    \* TP1: list of (id_review, term, tfidf)
    search_term,      \* the query term
    filtered_results, \* list of (doc_id, tfidf)
    total_docs,       \* job parameter context[0]
    mapped,           \* job: positions of reviews already given to map_tf
    groups,           \* job: word -> list of values emitted for it
    reduced,          \* job: words already given to reduce_tf_idf
    output            \* job: list of (review_id, (word, tfidf)) written by reducers

vars == <<files, read_i, reviews, pc, map_i, tf_results, idf_input, idf_values,
          tfidf_results, search_term, filtered_results, total_docs, mapped,
          groups, reduced, output>>

-----------------------------------------------------------------------------
(* Bounds *)

MaxTextLen == 3
MaxDocs == 2
MaxResults == 3
MaxContentLen == 3
MaxFiles == 2
MaxGroup == 2
MaxTf == 2
MaxTotalDocs == 3

-----------------------------------------------------------------------------
(* Strings *)

\* the separators of the pattern given to re.split in map_tf
Separators ==
    {";", ",", " ", ".", "-", "!", "\t", "\"", "&", "(", ")", "*", "<", ">", "/", ":", "'"}

\* what str.strip() removes
Whitespace == {" ", "\t", "\n"}

LowerChar(c) ==
    CASE c = "A" -> "a"
      [] c = "B" -> "b"
      [] c = "C" -> "c"
      [] OTHER -> c

\* str.lower()
Lower(s) == [i \in 1..Len(s) |-> LowerChar(s[i])]

\* re.split / str.split on single-character separators: every separator ends a
\* field, empty fields are kept, and the empty string gives one empty field
RECURSIVE Split(_, _)
Split(s, seps) ==
    IF s = <<>> THEN << <<>> >>
    ELSE LET rest == Split(Tail(s), seps) IN
         IF Head(s) \in seps
         THEN << <<>> >> \o rest
         ELSE << <<Head(s)>> \o Head(rest) >> \o Tail(rest)

RECURSIVE LStrip(_)
LStrip(s) ==
    IF s # <<>> /\ Head(s) \in Whitespace THEN LStrip(Tail(s)) ELSE s

RECURSIVE RStrip(_)
RStrip(s) ==
    IF s # <<>> /\ s[Len(s)] \in Whitespace
    THEN RStrip(SubSeq(s, 1, Len(s) - 1)) ELSE s

\* str.strip()
Strip(s) == RStrip(LStrip(s))

\* str.endswith
EndsWith(s, suffix) ==
    /\ Len(s) >= Len(suffix)
    /\ SubSeq(s, Len(s) - Len(suffix) + 1, Len(s)) = suffix

DotTxt == <<".", "t", "x", "t">>

-----------------------------------------------------------------------------
(* map_tf *)

\* TF[word] = 1 in place of TF[word] += 1
TFIncrementAssign(TF, word) ==
    IF \E k \in 1..Len(TF) : TF[k][1] = word
    THEN TF
    ELSE Append(TF, <<word, 1>>)

\* TF[word] += 1 on a defaultdict(int): a list of (word, count) in insertion order
TFIncrement(TF, word) ==
    IF \E k \in 1..Len(TF) : TF[k][1] = word
    THEN [k \in 1..Len(TF) |->
            IF TF[k][1] = word THEN <<word, TF[k][2] + 1>> ELSE TF[k]]
    ELSE Append(TF, <<word, 1>>)

\* for word in words: if word: TF[word] += 1
RECURSIVE TFCount(_, _)
TFCount(words, TF) ==
    IF words = <<>> THEN TF
    ELSE TFCount(Tail(words),
                 IF Head(words) # <<>> THEN TFIncrement(TF, Head(words)) ELSE TF)

\* words = re.split(..., review.lower())
SplitWords(review) == Split(Lower(review), Separators)

\* word_count = len(words)
WordCount(review) == Len(SplitWords(review))

\* TP1.map_tf: the list of ((word, id_review), (count, word_count))
map_tf(id_review, review) ==
    LET words == SplitWords(review)
        word_count == Len(words)
        TF == TFCount(words, <<>>)
    IN [k \in 1..Len(TF) |-> << <<TF[k][1], id_review>>, <<TF[k][2], word_count>> >>]

\* context.write moved into the counting loop: one pair per token
map_tf_emit_per_token(review_id, review) ==
    LET words == SelectSeq(SplitWords(review), LAMBDA w : w # <<>>)
        word_count == Len(SplitWords(review))
    IN [k \in 1..Len(words) |-> <<words[k], <<review_id, 1, word_count>> >>]

\* MapReduce_TFI-DF.map_tf: the context.write calls, (word, (review_id, count, word_count))
map_tf_emit(review_id, review) ==
    LET words == SplitWords(review)
        word_count == Len(words)
        TF == TFCount(words, <<>>)
    IN [k \in 1..Len(TF) |-> <<TF[k][1], <<review_id, TF[k][2], word_count>> >>]

-----------------------------------------------------------------------------
(* MapReduce/TP1.py: the functions of the sequential pipeline *)

\* map_tf_on_reviews, from position i on: results.extend(map_tf(review_id, review_text))
RECURSIVE map_tf_on_reviews(_)
map_tf_on_reviews(rs) ==
    IF rs = <<>> THEN <<>>
    ELSE map_tf(Head(rs)[1], Head(rs)[2]) \o map_tf_on_reviews(Tail(rs))

\* idf_input[word] = {id_review} in place of idf_input[word].add(id_review)
map_idf_from_tf_assign(tf) ==
    [w \in {tf[k][1][1] : k \in 1..Len(tf)} |->
        LET last == CHOOSE j \in 1..Len(tf) :
                       /\ tf[j][1][1] = w
                       /\ \A i \in 1..Len(tf) : tf[i][1][1] = w => i <= j
        IN {tf[last][1][2]}]

\* a defaultdict(set): idf_input[word].add(id_review)
map_idf_from_tf(tf) ==
    [w \in {tf[k][1][1] : k \in 1..Len(tf)} |->
        {tf[k][1][2] : k \in {j \in 1..Len(tf) : tf[j][1][1] = w}}]

\* math.log(total / n) raises ValueError when its argument is 0
MathLogRaises(total, n) == total = 0

\* math.log(total / n), kept as the pair it is computed from
MathLog(total, n) == <<total, n>>

\* calculate_idf: some len(doc_ids) makes math.log raise
calculate_idf_raises(input, total) ==
    \E w \in DOMAIN input : MathLogRaises(total, Cardinality(input[w]))

\* smoothed idf, log(total / (1 + n))
calculate_idf_smoothed(input, total) ==
    [w \in DOMAIN input |-> MathLog(total, 1 + Cardinality(input[w]))]

calculate_idf(input, total) ==
    [w \in DOMAIN input |-> MathLog(total, Cardinality(input[w]))]

\* (tf / word_count) * idf
TfIdf(tf, word_count, idf) == <<tf, word_count, idf[1], idf[2]>>

RECURSIVE calculate_tfidf(_, _)
calculate_tfidf(tf, idf) ==
    IF tf = <<>> THEN <<>>
    ELSE LET term == Head(tf)[1][1]
             id_review == Head(tf)[1][2]
             count == Head(tf)[2][1]
             word_count == Head(tf)[2][2]
             rest == calculate_tfidf(Tail(tf), idf)
         IN IF term \in DOMAIN idf
            THEN << <<id_review, term, TfIdf(count, word_count, idf[term])>> >> \o rest
            ELSE rest

\* returns at the first match
RECURSIVE filter_term_tfidf_first(_, _)
filter_term_tfidf_first(results, term) ==
    IF results = <<>> THEN <<>>
    ELSE IF Head(results)[2] = term
         THEN << <<Head(results)[1], Head(results)[3]>> >>
         ELSE filter_term_tfidf_first(Tail(results), term)

\* filter_term_tfidf (TP1), filter_results_by_word and select_word (the job files)
RECURSIVE filter_term_tfidf(_, _)
filter_term_tfidf(results, term) ==
    IF results = <<>> THEN <<>>
    ELSE LET rest == filter_term_tfidf(Tail(results), term) IN
         IF Head(results)[2] = term
         THEN << <<Head(results)[1], Head(results)[3]>> >> \o rest
         ELSE rest

-----------------------------------------------------------------------------
(* read_documents *)

\* review_id = filename.split('.')[0]
ReviewId(filename) == Split(filename, {"."})[1]

\* f.read().strip().split('\t')
ContentFields(content) == Split(Strip(content), {"\t"})

\* [1] of a list of fewer than two fields raises IndexError
ReadRaises(content) == Len(ContentFields(content)) < 2

ReviewText(content) == ContentFields(content)[2]

-----------------------------------------------------------------------------
(* MapReduce_TFI-DF.py: reduce_tf_idf *)

\* idf = math.log(total_docs / len(docs)) raises
reduce_tf_idf_raises(word, values, context) ==
    MathLogRaises(context[1], Len(values))

\* writes for docs[0] only
reduce_tf_idf_first(word, values, context) ==
    LET docs == values
        idf == MathLog(context[1], Len(docs))
    IN << <<docs[1][1], <<word, TfIdf(docs[1][2], docs[1][3], idf)>> >> >>

\* the context.write calls of the loop: (review_id, (word, tfidf))
reduce_tf_idf(word, values, context) ==
    LET docs == values
        idf == MathLog(context[1], Len(docs))
    IN [k \in 1..Len(docs) |->
          <<docs[k][1], <<word, TfIdf(docs[k][2], docs[k][3], idf)>> >>]

-----------------------------------------------------------------------------
(* Inputs *)

\* all character sequences of length at most n over chars
Texts(chars, n) == UNION {[1..k -> chars] : k \in 0..n}

\* all lists of length at most n over S
Lists(S, n) == UNION {[1..k -> S] : k \in 0..n}

\* characters of the reviews given to map_tf alone
MapChars == {"a", "b", "A", " ", ",", "?"}

\* reviews of the corpora given to the whole pipeline:
\* "a b", "b b c", "A, c", "c" and the empty review
SampleTexts ==
    { <<"a", " ", "b">>,
      <<"b", " ", "b", " ", "c">>,
      <<"A", ",", " ", "c">>,
      <<"c">>,
      <<>> }

\* review ids; two files such as x.txt and x.v2.txt give the same id
DocIds == {"d1", "d2"}

SearchTerms == {<<"a">>, <<"c">>}

\* file names of a listing: x.txt, y.txt, x.md
FileNames ==
    { <<"x", ".", "t", "x", "t">>,
      <<"y", ".", "t", "x", "t">>,
      <<"x", ".", "m", "d">> }

ContentChars == {"a", " ", "\t"}

\* os.listdir: distinct names in any order, each with its content
Listings ==
    {l \in Lists(FileNames \X Texts(ContentChars, MaxContentLen), MaxFiles) :
        \A i, j \in 1..Len(l) : i # j => l[i][1] # l[j][1]}

\* values a reducer can be given: (review_id, tf, total_words)
ReduceValues ==
    {<<d, tf, wc>> : d \in DocIds, tf \in 1..MaxTf, wc \in 1..(MaxTf + 1)}

ScoreSamples == {<<1, 2, 2, 1>>, <<1, 2, 2, 2>>}

-----------------------------------------------------------------------------
(* read_documents, one file of the listing at a time *)

ReadDocumentsStep ==
    /\ pc = "read_documents"
    /\ read_i <= Len(files)
    /\ LET filename == files[read_i][1]
           content == files[read_i][2]
       IN IF ~EndsWith(filename, DotTxt)
          THEN /\ read_i' = read_i + 1
               /\ UNCHANGED <<reviews, pc>>
          ELSE IF ReadRaises(content)
          THEN /\ pc' = "IndexError"
               /\ UNCHANGED <<reviews, read_i>>
          ELSE /\ reviews' = Append(reviews, <<ReviewId(filename), ReviewText(content)>>)
               /\ read_i' = read_i + 1
               /\ UNCHANGED pc
    /\ UNCHANGED <<files, map_i, tf_results, idf_input, idf_values, tfidf_results,
                   search_term, filtered_results, total_docs, mapped, groups,
                   reduced, output>>

ReadDocumentsReturn ==
    /\ pc = "read_documents"
    /\ read_i > Len(files)
    /\ pc' = "map_tf_on_reviews"
    /\ UNCHANGED <<files, read_i, reviews, map_i, tf_results, idf_input, idf_values,
                   tfidf_results, search_term, filtered_results, total_docs, mapped,
                   groups, reduced, output>>

-----------------------------------------------------------------------------
(* process_reviews *)

MapTfOnReviewsStep ==
    /\ pc = "map_tf_on_reviews"
    /\ map_i <= Len(reviews)
    /\ tf_results' = tf_results \o map_tf(reviews[map_i][1], reviews[map_i][2])
    /\ map_i' = map_i + 1
    /\ UNCHANGED <<files, read_i, reviews, pc, idf_input, idf_values, tfidf_results,
                   search_term, filtered_results, total_docs, mapped, groups,
                   reduced, output>>

MapTfOnReviewsReturn ==
    /\ pc = "map_tf_on_reviews"
    /\ map_i > Len(reviews)
    /\ pc' = "map_idf_from_tf"
    /\ UNCHANGED <<files, read_i, reviews, map_i, tf_results, idf_input, idf_values,
                   tfidf_results, search_term, filtered_results, total_docs, mapped,
                   groups, reduced, output>>

MapIdfFromTf ==
    /\ pc = "map_idf_from_tf"
    /\ idf_input' = map_idf_from_tf(tf_results)
    /\ pc' = "calculate_idf"
    /\ UNCHANGED <<files, read_i, reviews, map_i, tf_results, idf_values,
                   tfidf_results, search_term, filtered_results, total_docs, mapped,
                   groups, reduced, output>>

\* calculate_idf(idf_input, len(reviews))
CalculateIdf ==
    /\ pc = "calculate_idf"
    /\ IF calculate_idf_raises(idf_input, Len(reviews))
       THEN /\ pc' = "ValueError"
            /\ UNCHANGED idf_values
       ELSE /\ idf_values' = calculate_idf(idf_input, Len(reviews))
            /\ pc' = "calculate_tfidf"
    /\ UNCHANGED <<files, read_i, reviews, map_i, tf_results, idf_input,
                   tfidf_results, search_term, filtered_results, total_docs, mapped,
                   groups, reduced, output>>

CalculateTfidf ==
    /\ pc = "calculate_tfidf"
    /\ tfidf_results' = calculate_tfidf(tf_results, idf_values)
    /\ pc' = "filter_term_tfidf"
    /\ UNCHANGED <<files, read_i, reviews, map_i, tf_results, idf_input, idf_values,
                   search_term, filtered_results, total_docs, mapped, groups,
                   reduced, output>>

FilterTermTfidf ==
    /\ pc = "filter_term_tfidf"
    /\ filtered_results' = filter_term_tfidf(tfidf_results, search_term)
    /\ pc' = "save_tf_results"
    /\ UNCHANGED <<files, read_i, reviews, map_i, tf_results, idf_input, idf_values,
                   tfidf_results, search_term, total_docs, mapped, groups, reduced,
                   output>>

\* pickle.dump(tf_results, f), then return filtered_results
SaveTfResults ==
    /\ pc = "save_tf_results"
    /\ pc' = "done"
    /\ UNCHANGED <<files, read_i, reviews, map_i, tf_results, idf_input, idf_values,
                   tfidf_results, search_term, filtered_results, total_docs, mapped,
                   groups, reduced, output>>

-----------------------------------------------------------------------------
(* The job: Job(input_path, output_path, map_tf, reduce_tf_idf),            *)
(* setParams([total_docs]), waitForCompletion()                             *)

\* number of documents of the job: one per .txt file of input_path
JobTotalDocs(rs) == Len(rs)

\* group-by-key of the pairs one map task wrote
RECURSIVE Shuffle(_, _)
Shuffle(g, emitted) ==
    IF emitted = <<>> THEN g
    ELSE LET w == Head(emitted)[1]
             v == Head(emitted)[2]
         IN Shuffle(IF w \in DOMAIN g
                    THEN [g EXCEPT ![w] = Append(@, v)]
                    ELSE g @@ (w :> <<v>>),
                    Tail(emitted))

\* a map task: any document not mapped yet
JobMap ==
    /\ pc = "job_map"
    /\ \E i \in (1..Len(reviews)) \ mapped :
         /\ groups' = Shuffle(groups, map_tf_emit(reviews[i][1], reviews[i][2]))
         /\ mapped' = mapped \cup {i}
    /\ UNCHANGED <<files, read_i, reviews, pc, map_i, tf_results, idf_input,
                   idf_values, tfidf_results, search_term, filtered_results,
                   total_docs, reduced, output>>

\* the barrier: reducing starts when every document is mapped
JobBarrier ==
    /\ pc = "job_map"
    /\ mapped = 1..Len(reviews)
    /\ pc' = "job_reduce"
    /\ UNCHANGED <<files, read_i, reviews, map_i, tf_results, idf_input, idf_values,
                   tfidf_results, search_term, filtered_results, total_docs, mapped,
                   groups, reduced, output>>

\* a reduce task: any word not reduced yet, with context = [total_docs]
JobReduce ==
    /\ pc = "job_reduce"
    /\ \E w \in (DOMAIN groups) \ reduced :
         IF reduce_tf_idf_raises(w, groups[w], <<total_docs>>)
         THEN /\ pc' = "ValueError"
              /\ UNCHANGED <<reduced, output>>
         ELSE /\ output' = output \o reduce_tf_idf(w, groups[w], <<total_docs>>)
              /\ reduced' = reduced \cup {w}
              /\ UNCHANGED pc
    /\ UNCHANGED <<files, read_i, reviews, map_i, tf_results, idf_input, idf_values,
                   tfidf_results, search_term, filtered_results, total_docs, mapped,
                   groups>>

JobDone ==
    /\ pc = "job_reduce"
    /\ reduced = DOMAIN groups
    /\ pc' = "job_done"
    /\ UNCHANGED <<files, read_i, reviews, map_i, tf_results, idf_input, idf_values,
                   tfidf_results, search_term, filtered_results, total_docs, mapped,
                   groups, reduced, output>>

-----------------------------------------------------------------------------
(* Specifications *)

\* a corpus already read, run by process_reviews or by the job
Init ==
    /\ reviews \in Lists(DocIds \X SampleTexts, MaxDocs)
    /\ pc \in {"map_tf_on_reviews", "job_map"}
    /\ search_term \in (IF pc = "job_map" THEN {<<"a">>} ELSE SearchTerms)
    /\ total_docs = (IF pc = "job_map" THEN JobTotalDocs(reviews) ELSE 0)
    /\ files = <<>> /\ read_i = 1 /\ map_i = 1 /\ tf_results = <<>>
    /\ idf_input = <<>> /\ idf_values = <<>> /\ tfidf_results = <<>>
    /\ filtered_results = <<>> /\ mapped = {} /\ groups = <<>>
    /\ reduced = {} /\ output = <<>>

Next ==
    \/ MapTfOnReviewsStep
    \/ MapTfOnReviewsReturn
    \/ MapIdfFromTf
    \/ CalculateIdf
    \/ CalculateTfidf
    \/ FilterTermTfidf
    \/ SaveTfResults
    \/ JobMap
    \/ JobBarrier
    \/ JobReduce
    \/ JobDone

Spec == Init /\ [][Next]_vars

\* map_tf on one review, as process_reviews calls it and as a map task calls it
InitMapTf ==
    /\ reviews \in {<< <<d, t>> >> : d \in {"d1"}, t \in Texts(MapChars, MaxTextLen)}
    /\ pc \in {"map_tf_on_reviews", "job_map"}
    /\ total_docs = (IF pc = "job_map" THEN JobTotalDocs(reviews) ELSE 0)
    /\ files = <<>> /\ read_i = 1 /\ map_i = 1 /\ tf_results = <<>>
    /\ idf_input = <<>> /\ idf_values = <<>> /\ tfidf_results = <<>>
    /\ search_term = <<"a">> /\ filtered_results = <<>> /\ mapped = {}
    /\ groups = <<>> /\ reduced = {} /\ output = <<>>

NextMapTf ==
    \/ MapTfOnReviewsStep
    \/ MapTfOnReviewsReturn
    \/ JobMap
    \/ JobBarrier

SpecMapTf == InitMapTf /\ [][NextMapTf]_vars

\* reduce_tf_idf on one word's values with a total_docs the caller chose
InitReduce ==
    /\ pc = "job_reduce"
    /\ total_docs \in 0..MaxTotalDocs
    /\ groups \in {(<<"a">> :> vs) : vs \in Lists(ReduceValues, MaxGroup) \ {<<>>}}
    /\ reviews = <<>> /\ files = <<>> /\ read_i = 1 /\ map_i = 1 /\ tf_results = <<>>
    /\ idf_input = <<>> /\ idf_values = <<>> /\ tfidf_results = <<>>
    /\ search_term = <<"a">> /\ filtered_results = <<>> /\ mapped = {}
    /\ reduced = {} /\ output = <<>>

NextReduce ==
    \/ JobReduce
    \/ JobDone

SpecReduce == InitReduce /\ [][NextReduce]_vars

\* filter_term_tfidf on any list of results
InitFilter ==
    /\ pc = "filter_term_tfidf"
    /\ tfidf_results \in Lists(DocIds \X SearchTerms \X ScoreSamples, MaxResults)
    /\ search_term \in SearchTerms \cup {<<"b">>}
    /\ reviews = <<>> /\ files = <<>> /\ read_i = 1 /\ map_i = 1 /\ tf_results = <<>>
    /\ idf_input = <<>> /\ idf_values = <<>> /\ filtered_results = <<>>
    /\ total_docs = 0 /\ mapped = {} /\ groups = <<>> /\ reduced = {} /\ output = <<>>

NextFilter ==
    \/ FilterTermTfidf
    \/ SaveTfResults

SpecFilter == InitFilter /\ [][NextFilter]_vars

\* process_reviews(folder_path, search_term) from the listing of folder_path
InitRun ==
    /\ pc = "read_documents"
    /\ files \in Listings
    /\ read_i = 1 /\ reviews = <<>> /\ map_i = 1 /\ tf_results = <<>>
    /\ idf_input = <<>> /\ idf_values = <<>> /\ tfidf_results = <<>>
    /\ search_term = <<"a">> /\ filtered_results = <<>> /\ total_docs = 0
    /\ mapped = {} /\ groups = <<>> /\ reduced = {} /\ output = <<>>

NextRun ==
    \/ ReadDocumentsStep
    \/ ReadDocumentsReturn
    \/ MapTfOnReviewsStep
    \/ MapTfOnReviewsReturn
    \/ MapIdfFromTf
    \/ CalculateIdf
    \/ CalculateTfidf
    \/ FilterTermTfidf
    \/ SaveTfResults

SpecRun == InitRun /\ [][NextRun]_vars

-----------------------------------------------------------------------------
(* What the properties speak of *)

\* a token of a text: a maximal run of characters that are not separators
IsRun(text, i, j) ==
    /\ i <= j
    /\ \A k \in i..j : text[k] \notin Separators
    /\ (i = 1 \/ text[i - 1] \in Separators)
    /\ (j = Len(text) \/ text[j + 1] \in Separators)

TokenRuns(text) ==
    {r \in (1..Len(text)) \X (1..Len(text)) : IsRun(text, r[1], r[2])}

RunTerm(text, r) == Lower(SubSeq(text, r[1], r[2]))

\* number of occurrences of t among the lowercase tokens of text
Occurrences(t, text) ==
    Cardinality({r \in TokenRuns(text) : RunTerm(text, r) = t})

TokenSet(text) == {RunTerm(text, r) : r \in TokenRuns(text)}

UpperChars == {"A", "B", "C"}

UniqueIds ==
    \A i, j \in 1..Len(reviews) : i # j => reviews[i][1] # reviews[j][1]

\* positions of the documents that contain t
DocsWith(t) == {i \in 1..Len(reviews) : t \in TokenSet(reviews[i][2])}

CorpusTerms == UNION {TokenSet(reviews[i][2]) : i \in 1..Len(reviews)}

\* the job's output as (docId, term, score) entries
JobEntry(k) == <<output[k][1], output[k][2][1], output[k][2][2]>>

JobResultSet == {JobEntry(k) : k \in 1..Len(output)}

TP1ResultSet == {tfidf_results[k] : k \in 1..Len(tfidf_results)}

-----------------------------------------------------------------------------
(* map_tf *)

\* the one review of SpecMapTf has been mapped
MappedByTP1 == pc = "map_tf_on_reviews" /\ map_i = 2 /\ Len(reviews) = 1
MappedByJob == pc = "job_map" /\ mapped = {1} /\ Len(reviews) = 1

\* C1: map_tf emits a record for (t, d) iff t occurs among the non-empty lowercase
\* tokens of d's text, exactly one such record, whose rawCount is the number of
\* occurrences of t; in TP1.map_tf's list and in the job's map_tf emissions
C1_ExactCount ==
    LET d == reviews[1][1]
        text == reviews[1][2]
    IN /\ MappedByTP1 =>
            /\ \A k \in 1..Len(tf_results) :
                 /\ tf_results[k][1][2] = d
                 /\ tf_results[k][2][1] = Occurrences(tf_results[k][1][1], text)
                 /\ tf_results[k][2][1] >= 1
                 /\ \A c \in 1..Len(tf_results[k][1][1]) :
                        tf_results[k][1][1][c] \notin UpperChars
            /\ \A t \in TokenSet(text) :
                 Cardinality({k \in 1..Len(tf_results) : tf_results[k][1] = <<t, d>>}) = 1
            /\ \A k1, k2 \in 1..Len(tf_results) :
                 tf_results[k1][1] = tf_results[k2][1] => k1 = k2
       /\ MappedByJob =>
            /\ DOMAIN groups = TokenSet(text)
            /\ \A t \in DOMAIN groups :
                 /\ Len(groups[t]) = 1
                 /\ groups[t][1][1] = d
                 /\ groups[t][1][2] = Occurrences(t, text)

\* a review with an uppercase letter and a repeated token has been mapped
C1_Witness ==
    /\ MappedByTP1
    /\ \E c \in 1..Len(reviews[1][2]) : reviews[1][2][c] = "A"
    /\ \E k \in 1..Len(tf_results) : tf_results[k][2][1] = 2

\* C2: the docLength of every emitted record is the number of non-empty tokens of
\* the document (empty strings between, before or after separators not counted)
C2_DocLengthIsTokenCount ==
    LET text == reviews[1][2] IN
    /\ MappedByTP1 =>
         \A k \in 1..Len(tf_results) :
            tf_results[k][2][2] = Cardinality(TokenRuns(text))
    /\ MappedByJob =>
         \A t \in DOMAIN groups : \A k \in 1..Len(groups[t]) :
            groups[t][k][3] = Cardinality(TokenRuns(text))

-----------------------------------------------------------------------------
(* reduce_tf_idf *)

\* distinct docId values of a word's values
DocFrequency(vs) == Cardinality({vs[k][1] : k \in 1..Len(vs)})

\* C3: a reducer given total_docs smaller than the document frequency of its word
\* ends in a fatal error and writes no entry for the word
C3_InconsistentCountIsFatal ==
    \A w \in DOMAIN groups :
        total_docs < DocFrequency(groups[w]) =>
            /\ w \notin reduced
            /\ \A k \in 1..Len(output) : output[k][2][1] # w
            /\ pc # "job_done"

-----------------------------------------------------------------------------
(* filter_term_tfidf *)

Matching == {i \in 1..Len(tfidf_results) : tfidf_results[i][2] = search_term}

Filtered == pc \in {"save_tf_results", "done"}

\* C7: the filter returns exactly the (docId, score) pairs of the entries whose term
\* is the query term, each once, in ResultSet order; no match gives the empty list
C7_FilterExact ==
    Filtered =>
        /\ Len(filtered_results) = Cardinality(Matching)
        /\ \A i \in Matching :
             LET k == Cardinality({j \in Matching : j <= i})
             IN filtered_results[k] = <<tfidf_results[i][1], tfidf_results[i][3]>>

\* two of three entries match the query term
C7_Witness ==
    /\ pc = "save_tf_results"
    /\ Len(tfidf_results) = 3
    /\ Matching = {1, 3}
    /\ Len(filtered_results) = 2

-----------------------------------------------------------------------------
(* The run from the listing of the folder *)

\* the reduction stage of process_reviews has been passed
PastReduction == pc \in {"calculate_tfidf", "filter_term_tfidf", "save_tf_results", "done"}

\* C4: a run over an empty corpus (total_docs = 0) ends in a fatal error raised
\* before any reduction; it never passes the reduction stage or completes normally
C4_EmptyCorpusIsFatal ==
    (pc # "read_documents" /\ Len(reviews) = 0) => ~PastReduction

\* the .txt files of the listing whose record holds a tab-delimited text
WellFormed == {i \in 1..Len(files) :
                 /\ EndsWith(files[i][1], DotTxt)
                 /\ \E k \in 1..Len(Strip(files[i][2])) : Strip(files[i][2])[k] = "\t"}

\* C8: a document whose record has no tab delimiter is skipped: the run does not
\* abort, and every other document of the corpus is read and processed
C8_MalformedIsSkipped ==
    /\ pc # "IndexError"
    /\ (pc \notin {"read_documents", "IndexError"}) =>
           Len(reviews) = Cardinality(WellFormed)

-----------------------------------------------------------------------------
(* The pipeline on a corpus *)

IdfComputed == PastReduction

ExpectedEntry(i, t) ==
    <<reviews[i][1], t,
      <<Occurrences(t, reviews[i][2]), WordCount(reviews[i][2]),
        total_docs, Cardinality(DocsWith(t))>> >>

\* a set that depends on the corpus alone, not on the order of any task
ExpectedResultSet ==
    UNION {{ExpectedEntry(i, t) : t \in TokenSet(reviews[i][2])} : i \in 1..Len(reviews)}

\* C6: with the map tasks run in any order and the reduce tasks run in any order,
\* the completed job yields the same ResultSet, as a set of (docId, term, score)
C6_OrderIndependent ==
    pc = "job_done" => JobResultSet = ExpectedResultSet

\* the job completed having mapped the second document first and having reduced
\* three words, the first of them not the first word emitted
C6_Witness ==
    /\ pc = "job_done"
    /\ Len(reviews) = 2
    /\ Cardinality(reduced) = 3
    /\ \E w \in DOMAIN groups : Len(groups[w]) = 2 /\ groups[w][1][1] = reviews[2][1]
                                /\ reviews[1][1] # reviews[2][1]
    /\ output[1][2][1] \notin TokenSet(reviews[1][2])

\* number of entries of (docId, term) in a result list
CountTP1(d, t) ==
    Cardinality({k \in 1..Len(tfidf_results) :
                    tfidf_results[k][1] = d /\ tfidf_results[k][2] = t})

CountJob(d, t) ==
    Cardinality({k \in 1..Len(output) : output[k][1] = d /\ output[k][2][1] = t})

\* C9: in the ResultSet of a completed run over a corpus with unique ids, a
\* (docId, term) pair is present exactly when the term occurs in the document, at
\* most once, written by the one reducer invocation for the term
C9_OneEntryPerPair ==
    UniqueIds =>
      /\ pc = "done" =>
           /\ \A k \in 1..Len(tfidf_results) :
                /\ tfidf_results[k][2] \in CorpusTerms
                /\ \E i \in 1..Len(reviews) : tfidf_results[k][1] = reviews[i][1]
           /\ \A i \in 1..Len(reviews) : \A t \in CorpusTerms :
                CountTP1(reviews[i][1], t) =
                    (IF t \in TokenSet(reviews[i][2]) THEN 1 ELSE 0)
      /\ pc = "job_done" =>
           /\ \A k \in 1..Len(output) :
                /\ output[k][2][1] \in CorpusTerms
                /\ output[k][2][1] \in reduced
                /\ \E i \in 1..Len(reviews) : output[k][1] = reviews[i][1]
           /\ \A i \in 1..Len(reviews) : \A t \in CorpusTerms :
                CountJob(reviews[i][1], t) =
                    (IF t \in TokenSet(reviews[i][2]) THEN 1 ELSE 0)
           \* one invocation per word: its entries are written together
           /\ \A k1, k2, k3 \in 1..Len(output) :
                (k1 < k2 /\ k2 < k3 /\ output[k1][2][1] = output[k3][2][1])
                    => output[k2][2][1] = output[k1][2][1]

\* a completed job over two documents with distinct ids that share a term
C9_Witness ==
    /\ pc = "job_done"
    /\ UniqueIds
    /\ Len(reviews) = 2
    /\ \E t \in CorpusTerms : Cardinality(DocsWith(t)) = 2
    /\ Len(output) >= 4

\* the whole of process_reviews up to calculate_tfidf, on the corpus of the state
TP1Pipeline ==
    LET tf == map_tf_on_reviews(reviews)
        idf == calculate_idf(map_idf_from_tf(tf), Len(reviews))
        res == calculate_tfidf(tf, idf)
    IN {res[k] : k \in 1..Len(res)}

\* C10: on a corpus with unique ids and total_docs the number of documents, the
\* sequential pipeline and the job give the same set of
\* (docId, term, rawCount, docLength, totalDocs, docFrequency) results
C10_PipelineEqualsJob ==
    /\ (pc = "job_done" /\ UniqueIds /\ total_docs = Len(reviews)) =>
           JobResultSet = TP1Pipeline
    /\ pc = "done" => TP1ResultSet = TP1Pipeline

\* a completed job over two documents with distinct ids sharing a term
C10_Witness ==
    /\ pc = "job_done"
    /\ UniqueIds
    /\ total_docs = 2
    /\ \E e \in JobResultSet : e[3][4] = 2
    /\ \E e \in JobResultSet : e[3][4] = 1

\* a completed job over two documents with one id, where the set of ids and the
\* list of values differ in size and so do the results
C10_RepeatedIdDiffers ==
    /\ pc = "job_done"
    /\ ~UniqueIds
    /\ JobResultSet # TP1Pipeline

====
